---- MODULE Spec2Model ----
(***************************************************************************)
(* The show scheduler of Scheduling_Script.py: schedule(students, data,    *)
(* holidays) builds one window per (Course, Mod/Act), sorts the windows by *)
(* (close, open) and fills each with shows in two greedy passes over a     *)
(* ledger shared by all windows.                                           *)
(*                                                                         *)
(* Dates are day numbers; day 0 is a Monday, so date.weekday() is d % 7.   *)
(* day_key (strftime "%Y-%m-%d") is one-to-one on dates and is modelled by *)
(* the day number itself. A course name is the sequence of its words.      *)
(***************************************************************************)
EXTENDS Integers, Sequences, FiniteSets, TLC

\* ---------------------------------------------------------------- bounds
\* Number of raw demand rows handed to schedule().
MaxRows == 2

\* ------------------------------------------------------------ constants.py
\* BUFFER_PCT = 0.10, in hundredths
BUFFER_PCT == 10
DEFAULT_STUDENTS_OTHER == 200

PODS ==
  << [pod |-> "CRTVC 1", capacity |-> 6,  ops_group |-> "B"],
     [pod |-> "CRTVC 2", capacity |-> 6,  ops_group |-> "B"],
     [pod |-> "CRTVC 3", capacity |-> 24, ops_group |-> "A"],
     [pod |-> "CRTVC 4", capacity |-> 24, ops_group |-> "A"],
     [pod |-> "CRTVC 5", capacity |-> 28, ops_group |-> "B"],
     [pod |-> "CRTVC 6", capacity |-> 28, ops_group |-> "B"] >>

SHOW_LENGTH_MAP ==
  [p \in {"Bio", "CHM", "Astronomy", "Art", "Scm"} |-> IF p = "Scm" THEN 20 ELSE 30]

DEFAULT_SHOW_LEN == 20
BREAK_LEN == 10
START_HOUR == [hour |-> 9, minute |-> 0]
END_HOUR_REGULAR == [hour |-> 17, minute |-> 0]
END_HOUR_FRIDAY == [hour |-> 13, minute |-> 0]
STEP_MIN == 5

\* POD_CAPACITY and OPS_GROUP, the mappings derived from PODS
POD_CAPACITY(pod) == PODS[CHOOSE k \in DOMAIN PODS : PODS[k].pod = pod].capacity
OPS_GROUP(pod) == PODS[CHOOSE k \in DOMAIN PODS : PODS[k].pod = pod].ops_group

\* ------------------------------------------------------------ input pools
\* Course names and activity labels, each listed in ascending string order.
CourseNames == << <<"Bio", "181">>, <<"Phy", "101">>, <<"Scm", "300">> >>
ModActs == << "M1 A1", "M1 A2" >>

Range(s) == {s[k] : k \in DOMAIN s}
IndexOf(s, x) == CHOOSE k \in DOMAIN s : s[k] = x
\* Python's string comparison on the pooled names.
CourseLess(a, b) == IndexOf(CourseNames, a) < IndexOf(CourseNames, b)
ModLess(a, b) == IndexOf(ModActs, a) < IndexOf(ModActs, b)

Min(S) == CHOOSE x \in S : \A y \in S : x <= y
Max(S) == CHOOSE x \in S : \A y \in S : x >= y

\* --------------------------------------------------------- helper functions
weekday(d) == d % 7

\* is_holiday comparing the datetime itself with the dates of the list: never equal.
is_holiday_DatetimeAgainstDates(date, hol) == FALSE

is_holiday(date, hol) == date \in hol

\* get_show_length looking up the whole course name instead of its first word.
get_show_length_WholeName(course) ==
  LET name == IF Len(course) = 1 THEN course[1] ELSE ""
  IN  IF name \in DOMAIN SHOW_LENGTH_MAP THEN SHOW_LENGTH_MAP[name]
      ELSE DEFAULT_SHOW_LEN

\* prefix = course.split()[0] if course else ""
get_show_length(course) ==
  LET prefix == IF course # <<>> THEN course[1] ELSE ""
  IN  IF prefix \in DOMAIN SHOW_LENGTH_MAP THEN SHOW_LENGTH_MAP[prefix]
      ELSE DEFAULT_SHOW_LEN

\* business_days_inclusive that also takes the day after end.
RECURSIVE business_days_inclusive_PastEnd(_, _, _)
business_days_inclusive_PastEnd(start, end, hol) ==
  IF start > end + 1 THEN <<>>
  ELSE IF weekday(start) < 5 /\ ~is_holiday(start, hol)
       THEN <<start>> \o business_days_inclusive_PastEnd(start + 1, end, hol)
       ELSE business_days_inclusive_PastEnd(start + 1, end, hol)

RECURSIVE business_days_inclusive(_, _, _)
business_days_inclusive(start, end, hol) ==
  IF start > end THEN <<>>
  ELSE IF weekday(start) < 5 /\ ~is_holiday(start, hol)
       THEN <<start>> \o business_days_inclusive(start + 1, end, hol)
       ELSE business_days_inclusive(start + 1, end, hol)

minutes(t) == t.hour * 60 + t.minute

time_from_minutes(m) == [hour |-> m \div 60, minute |-> m % 60]

\* get_end_hour_for_date without the Friday case.
get_end_hour_for_date_NoFriday(date) == END_HOUR_REGULAR

get_end_hour_for_date(date) ==
  IF weekday(date) = 4 THEN END_HOUR_FRIDAY ELSE END_HOUR_REGULAR

\* list(range(start_m, last_start + 1, step))
candidate_starts_for_date(date, show_len) ==
  LET start_m == minutes(START_HOUR)
      last_start == minutes(get_end_hour_for_date(date)) - show_len
      n == IF last_start + 1 > start_m
           THEN (last_start - start_m) \div STEP_MIN + 1 ELSE 0
  IN  [k \in 1..n |-> start_m + (k - 1) * STEP_MIN]

\* math.ceil(a / b) for integers a >= 0, b > 0
CeilDiv(a, b) == (a + b - 1) \div b

RECURSIVE Pow2Floor(_)
Pow2Floor(x) == IF x < 2 THEN 1 ELSE 2 * Pow2Floor(x \div 2)

\* math.ceil(student_count * (1.0 + BUFFER_PCT)) in binary floating point.
\* 1.0 + 0.10 is the double just above 1.1 (1.1 + 0.4 * 2^-52), so the product
\* n * 1.1 exceeds its exact value by n * 0.4 * 2^-52 before rounding. When
\* 1.1 n is no integer the ceiling is the exact one. When n = 10 k the exact
\* value is the integer 11 k and the excess k * 2^-50 rounds up to the next
\* double, and the ceiling to 11 k + 1, exactly when it is more than half the
\* spacing 2^(e-52) of the doubles at 11 k, 2^e <= 11 k < 2^(e+1).
SeatsRequired(student_count) ==
  LET pct == 100 + BUFFER_PCT
  IN  IF (student_count * pct) % 100 = 0 /\ student_count > 0
      THEN LET exact == (student_count * pct) \div 100
               k == student_count \div 10
           IN  IF 8 * k > Pow2Floor(exact) THEN exact + 1 ELSE exact
      ELSE CeilDiv(student_count * pct, 100)

\* v * 2^k mod m
RECURSIVE DoubleMod(_, _, _)
DoubleMod(v, k, m) == IF k = 0 THEN v ELSE DoubleMod((2 * v) % m, k - 1, m)

\* The power of two 2^a that brings w / t, 0 < w <= t, into [1, 2).
RECURSIVE Pow2Scale(_, _)
Pow2Scale(w, t) == IF w >= t THEN 1 ELSE 2 * Pow2Scale(2 * w, t)

\* math.ceil((day_weight / total_weight) * seats_required) in binary floating
\* point. The quotient w / t is rounded to 53 bits: with 2^a the scale of
\* Pow2Scale and r = w * 2^(52+a) mod t, it is rounded up by (t - r) / t units
\* of 2^-(52+a) when 2 r > t, and down otherwise. When the exact product is no
\* integer, or the quotient was rounded down, the ceiling is the exact one.
\* When the exact product is an integer E and the quotient was rounded up, the
\* product exceeds E by (t - r) / t * seats * 2^-(52+a); it is rounded to the
\* double above E, and the ceiling to E + 1, exactly when that excess is more
\* than half the spacing 2^(e-52) of the doubles at E, 2^e <= E < 2^(e+1).
DailyTarget(day_weight, total_weight, seats) ==
  LET exact == CeilDiv(day_weight * seats, total_weight)
      scale == Pow2Scale(day_weight, total_weight)
      r == (DoubleMod(day_weight % total_weight, 52, total_weight) * scale)
             % total_weight
  IN  IF /\ seats > 0
         /\ (day_weight * seats) % total_weight = 0
         /\ 2 * r > total_weight
         /\ (total_weight - r) * seats * 2 > total_weight * scale * Pow2Floor(exact)
      THEN exact + 1
      ELSE exact

\* sum(range(1, num_days + 1))
TotalWeight(num_days) == (num_days * (num_days + 1)) \div 2

\* dict.get(key, default)
Get(dict, key, default) == IF key \in DOMAIN dict THEN dict[key] ELSE default

\* ------------------------------------------------------------------- state
VARIABLES
  students,           \* argument: dict course -> number of students
  data,               \* argument: list of rows
  holidays,           \* argument: the holiday dates
  pc,                 \* position in schedule()
  ops_used_starts,    \* (day_key, ops_group) -> set(start_min)
  ops_used_ends,      \* (day_key, ops_group) -> set(end_min)
  all_bookings,       \* (day_key, pod, start_min) -> (course, mod_act, end_min, show_len)
  pod_usage_count,    \* pod -> number of shows placed in it
  windows,            \* the sorted windows frame
  wi,                 \* index of the window the main loop is at
  schedule_rows,
  summary_rows,
  student_count,
  seats_required,
  show_len,
  days,
  total_capacity,
  shows_for_pair,
  i,                  \* index into days of the day loop (1-based)
  daily_target,
  day_capacity_filled,
  si,                 \* index into candidate_starts of the start loop (1-based)
  raised,             \* the exception schedule() ended with, or NoError
  returned            \* the (schedule_df, summary_df) pair returned, or NoValue

inputs == <<students, data, holidays>>
ledger == <<ops_used_starts, ops_used_ends, all_bookings, pod_usage_count>>
window_locals == <<student_count, seats_required, show_len, days>>
counters == <<total_capacity, shows_for_pair>>
day_locals == <<daily_target, day_capacity_filled>>
outputs == <<schedule_rows, summary_rows>>
vars == <<inputs, pc, ledger, windows, wi, outputs, window_locals, counters, i,
          day_locals, si, raised, returned>>

NoError == [type |-> "none"]
NoValue == [schedule_df |-> <<>>, summary_df |-> <<>>, set |-> FALSE]

\* ------------------------------------------------------------------ inputs
\* Day 3 is a Thursday, 4 a Friday, 5 and 6 the weekend, 7 a Monday.
\* Open and close dates of the everyday rows: Thursday to Friday, a Friday,
\* Friday to Monday over the weekend, and an inverted range.
Ranges == { <<3, 4>>, <<4, 4>>, <<4, 7>>, <<4, 3>> }

\* A raw row of data after parse_date: (Course, Mod/Act, Open Date, Close Date).
Row(c, m, o, e) == [Course |-> c, ModAct |-> m, Open |-> o, Close |-> e]

\* The (Course, Mod/Act) pairs of the everyday rows.
Keys == { <<<<"Bio", "181">>, "M1 A1">>, <<<<"Bio", "181">>, "M1 A2">>,
          <<<<"Phy", "101">>, "M1 A1">> }

Rows == { Row(k[1], k[2], r[1], r[2]) : k \in Keys, r \in Ranges }

StudentDicts == { <<>>, [c \in {<<"Bio", "181">>} |-> 30] }

HolidayLists == { {}, {4} }

\* Rows and student numbers that use up the pods of their days.
StressRows ==
  { Row(<<"Scm", "300">>, "M1 A1", 3, 4),
    Row(<<"Bio", "181">>, "M1 A1", 3, 4),
    Row(<<"Phy", "101">>, "M1 A1", 4, 7) }

StressDict ==
  [c \in {<<"Bio", "181">>, <<"Scm", "300">>} |-> IF c[1] = "Bio" THEN 1200 ELSE 3600]

\* A window of thirteen business days, Monday of one week to Wednesday of the
\* third, for a course of 248 students.
LongRow == Row(<<"Phy", "101">>, "M1 A1", 0, 16)

LongDict == [c \in {<<"Phy", "101">>} |-> 248]

\* A course of 25 students: 28 seats, the capacity of one large pod.
SmallDict == [c \in {<<"Bio", "181">>} |-> 25]

RECURSIVE SeqsUpTo(_, _)
SeqsUpTo(S, n) ==
  IF n = 0 THEN {<<>>}
  ELSE LET shorter == SeqsUpTo(S, n - 1)
       IN  shorter \cup {Append(q, x) : q \in shorter, x \in S}

Inputs ==
  [students : StudentDicts, data : SeqsUpTo(Rows, MaxRows), holidays : HolidayLists]
  \cup [students : {StressDict}, data : SeqsUpTo(StressRows, MaxRows), holidays : {{}}]
  \cup [students : {LongDict}, data : {<<LongRow>>}, holidays : {{}}]
  \cup [students : {SmallDict}, data : SeqsUpTo(StressRows, 1), holidays : {{}}]

Init ==
  /\ \E inp \in Inputs :
       /\ students = inp.students
       /\ data = inp.data
       /\ holidays = inp.holidays
  /\ pc = "build"
  /\ ops_used_starts = <<>>
  /\ ops_used_ends = <<>>
  /\ all_bookings = <<>>
  /\ pod_usage_count = [p \in {PODS[k].pod : k \in DOMAIN PODS} |-> 0]
  /\ windows = <<>>
  /\ wi = 0
  /\ schedule_rows = <<>>
  /\ summary_rows = <<>>
  /\ student_count = 0
  /\ seats_required = 0
  /\ show_len = 0
  /\ days = <<>>
  /\ total_capacity = 0
  /\ shows_for_pair = 0
  /\ i = 0
  /\ daily_target = 0
  /\ day_capacity_filled = 0
  /\ si = 0
  /\ raised = NoError
  /\ returned = NoValue

\* ----------------------------------------------------- closures of schedule
\* can_place without the overlap test for shows of the same activity.
can_place_SameActivityFree(day_key, pod, ops_group, start_min, course, mod_act, date_obj, len) ==
  LET end_min == start_min + len
  IN  /\ start_min \notin Get(ops_used_starts, <<day_key, ops_group>>, {})
      /\ end_min \notin Get(ops_used_ends, <<day_key, ops_group>>, {})
      /\ ~(end_min > minutes(get_end_hour_for_date(date_obj)))
      /\ \A key \in DOMAIN all_bookings :
           (key[1] = day_key /\ key[2] = pod) =>
             LET existing_start == key[3]
                 details == all_bookings[key]
                 existing_end == details.end_min
                 same_activity == details.course = course /\ details.mod_act = mod_act
             IN  IF same_activity
                 THEN TRUE
                 ELSE /\ ~(start_min < existing_end + BREAK_LEN /\ end_min > existing_start)
                      /\ ~(existing_start < end_min + BREAK_LEN /\ existing_end > start_min)

\* can_place with the overlap test alone for shows of different activities.
can_place_NoBreak(day_key, pod, ops_group, start_min, course, mod_act, date_obj, len) ==
  LET end_min == start_min + len
  IN  /\ start_min \notin Get(ops_used_starts, <<day_key, ops_group>>, {})
      /\ end_min \notin Get(ops_used_ends, <<day_key, ops_group>>, {})
      /\ ~(end_min > minutes(get_end_hour_for_date(date_obj)))
      /\ \A key \in DOMAIN all_bookings :
           (key[1] = day_key /\ key[2] = pod) =>
             (end_min <= key[3] \/ start_min >= all_bookings[key].end_min)

\* can_place without the test of the ops group's used end times.
can_place_NoEndCheck(day_key, pod, ops_group, start_min, course, mod_act, date_obj, len) ==
  LET end_min == start_min + len
  IN  /\ start_min \notin Get(ops_used_starts, <<day_key, ops_group>>, {})
      /\ ~(end_min > minutes(get_end_hour_for_date(date_obj)))
      /\ \A key \in DOMAIN all_bookings :
           (key[1] = day_key /\ key[2] = pod) =>
             LET existing_start == key[3]
                 details == all_bookings[key]
                 existing_end == details.end_min
                 same_activity == details.course = course /\ details.mod_act = mod_act
             IN  IF same_activity
                 THEN end_min <= existing_start \/ start_min >= existing_end
                 ELSE /\ ~(start_min < existing_end + BREAK_LEN /\ end_min > existing_start)
                      /\ ~(existing_start < end_min + BREAK_LEN /\ existing_end > start_min)

\* can_place with the first break test alone for shows of different activities.
can_place_OneSidedBreak(day_key, pod, ops_group, start_min, course, mod_act, date_obj, len) ==
  LET end_min == start_min + len
  IN  /\ start_min \notin Get(ops_used_starts, <<day_key, ops_group>>, {})
      /\ end_min \notin Get(ops_used_ends, <<day_key, ops_group>>, {})
      /\ ~(end_min > minutes(get_end_hour_for_date(date_obj)))
      /\ \A key \in DOMAIN all_bookings :
           (key[1] = day_key /\ key[2] = pod) =>
             LET existing_start == key[3]
                 details == all_bookings[key]
                 existing_end == details.end_min
                 same_activity == details.course = course /\ details.mod_act = mod_act
             IN  IF same_activity
                 THEN end_min <= existing_start \/ start_min >= existing_end
                 ELSE ~(start_min < existing_end + BREAK_LEN /\ end_min > existing_start)

can_place(day_key, pod, ops_group, start_min, course, mod_act, date_obj, len) ==
  LET end_min == start_min + len
  IN  /\ start_min \notin Get(ops_used_starts, <<day_key, ops_group>>, {})
      /\ end_min \notin Get(ops_used_ends, <<day_key, ops_group>>, {})
      /\ ~(end_min > minutes(get_end_hour_for_date(date_obj)))
      /\ \A key \in DOMAIN all_bookings :
           (key[1] = day_key /\ key[2] = pod) =>
             LET existing_start == key[3]
                 details == all_bookings[key]
                 existing_end == details.end_min
                 same_activity == details.course = course /\ details.mod_act = mod_act
             IN  IF same_activity
                 THEN end_min <= existing_start \/ start_min >= existing_end
                 ELSE /\ ~(start_min < existing_end + BREAK_LEN /\ end_min > existing_start)
                      /\ ~(existing_start < end_min + BREAK_LEN /\ existing_end > start_min)

\* dict[key] = value
Put(dict, key, value) ==
  [k \in DOMAIN dict \cup {key} |-> IF k = key THEN value ELSE dict[k]]

\* place that rebuilds all_bookings without the earlier bookings of the day.
place_DropsDayBookings(day_key, pod, ops_group, start_min, course, mod_act, len) ==
  LET end_min == start_min + len
      grp_key == <<day_key, ops_group>>
      others == {k \in DOMAIN all_bookings : k[1] # day_key}
  IN  /\ ops_used_starts' = Put(ops_used_starts, grp_key,
                                Get(ops_used_starts, grp_key, {}) \cup {start_min})
      /\ ops_used_ends' = Put(ops_used_ends, grp_key,
                              Get(ops_used_ends, grp_key, {}) \cup {end_min})
      /\ all_bookings' = Put([k \in others |-> all_bookings[k]],
                             <<day_key, pod, start_min>>,
                             [course |-> course, mod_act |-> mod_act,
                              end_min |-> end_min, show_len |-> len])
      /\ pod_usage_count' = [pod_usage_count EXCEPT ![pod] = @ + 1]

\* place without the ops_used_starts line.
place_NoStartLedger(day_key, pod, ops_group, start_min, course, mod_act, len) ==
  LET end_min == start_min + len
      grp_key == <<day_key, ops_group>>
  IN  /\ ops_used_starts' = ops_used_starts
      /\ ops_used_ends' = Put(ops_used_ends, grp_key,
                              Get(ops_used_ends, grp_key, {}) \cup {end_min})
      /\ all_bookings' = Put(all_bookings, <<day_key, pod, start_min>>,
                             [course |-> course, mod_act |-> mod_act,
                              end_min |-> end_min, show_len |-> len])
      /\ pod_usage_count' = [pod_usage_count EXCEPT ![pod] = @ + 1]

\* place without the ops_used_ends line.
place_NoEndLedger(day_key, pod, ops_group, start_min, course, mod_act, len) ==
  LET end_min == start_min + len
      grp_key == <<day_key, ops_group>>
  IN  /\ ops_used_starts' = Put(ops_used_starts, grp_key,
                                Get(ops_used_starts, grp_key, {}) \cup {start_min})
      /\ ops_used_ends' = ops_used_ends
      /\ all_bookings' = Put(all_bookings, <<day_key, pod, start_min>>,
                             [course |-> course, mod_act |-> mod_act,
                              end_min |-> end_min, show_len |-> len])
      /\ pod_usage_count' = [pod_usage_count EXCEPT ![pod] = @ + 1]

\* all_bookings[(day_key, pod, start_min)] = (course, mod_act, end_min, show_len)
place(day_key, pod, ops_group, start_min, course, mod_act, len) ==
  LET end_min == start_min + len
      grp_key == <<day_key, ops_group>>
  IN  /\ ops_used_starts' = Put(ops_used_starts, grp_key,
                                Get(ops_used_starts, grp_key, {}) \cup {start_min})
      /\ ops_used_ends' = Put(ops_used_ends, grp_key,
                              Get(ops_used_ends, grp_key, {}) \cup {end_min})
      /\ all_bookings' = Put(all_bookings, <<day_key, pod, start_min>>,
                             [course |-> course, mod_act |-> mod_act,
                              end_min |-> end_min, show_len |-> len])
      /\ pod_usage_count' = [pod_usage_count EXCEPT ![pod] = @ + 1]

\* Python's comparison of two tuples of integers of equal length.
RECURSIVE TupleLess(_, _)
TupleLess(a, b) ==
  /\ a # <<>>
  /\ \/ a[1] < b[1]
     \/ a[1] = b[1] /\ TupleLess(Tail(a), Tail(b))

\* A stable ascending sort of seq by the key tuples keys[k] of its elements,
\* as sorted(key=...) and sort_values on several columns are: elements with
\* equal keys keep their order.
StableSort(seq, keys) ==
  [r \in DOMAIN seq |->
     seq[CHOOSE a \in DOMAIN seq :
           Cardinality({b \in DOMAIN seq :
                          \/ TupleLess(keys[b], keys[a])
                          \/ keys[b] = keys[a] /\ b < a}) = r - 1]]

\* key=lambda p: (p["capacity"], pod_usage_count[p["pod"]])
PodKey_CapacityAscending(p) == <<p.capacity, pod_usage_count[p.pod]>>

\* key=lambda p: (-p["capacity"], pod_usage_count[p["pod"]])
PodKey(p) == <<0 - p.capacity, pod_usage_count[p.pod]>>

pods_sorted_for_slot == StableSort(PODS, [k \in DOMAIN PODS |-> PodKey(PODS[k])])

\* ------------------------------------------------------------ build windows
\* groupby(...).agg("first"): the dates of the first row of each key.
GroupByCourseModAct_FirstRow(rows) ==
  LET keys == {<<rows[k].Course, rows[k].ModAct>> : k \in DOMAIN rows}
      KeyLess(a, b) == \/ CourseLess(a[1], b[1])
                       \/ a[1] = b[1] /\ ModLess(a[2], b[2])
      Of(key) == {k \in DOMAIN rows : <<rows[k].Course, rows[k].ModAct>> = key}
      Agg(key) == [Course |-> key[1], ModAct |-> key[2],
                   open_date |-> rows[Min(Of(key))].Open,
                   close_date |-> rows[Min(Of(key))].Close]
  IN  [r \in 1..Cardinality(keys) |->
         Agg(CHOOSE key \in keys :
               Cardinality({other \in keys : KeyLess(other, key)}) = r - 1)]

\* df.groupby(["Course", "Mod/Act"], as_index=False).agg(min open, max close):
\* one row per key, in ascending key order.
GroupByCourseModAct(rows) ==
  LET keys == {<<rows[k].Course, rows[k].ModAct>> : k \in DOMAIN rows}
      KeyLess(a, b) == \/ CourseLess(a[1], b[1])
                       \/ a[1] = b[1] /\ ModLess(a[2], b[2])
      Of(key) == {k \in DOMAIN rows : <<rows[k].Course, rows[k].ModAct>> = key}
      Agg(key) == [Course |-> key[1], ModAct |-> key[2],
                   open_date |-> Min({rows[k].Open : k \in Of(key)}),
                   close_date |-> Max({rows[k].Close : k \in Of(key)})]
  IN  [r \in 1..Cardinality(keys) |->
         Agg(CHOOSE key \in keys :
               Cardinality({other \in keys : KeyLess(other, key)}) = r - 1)]

\* sort_values(["close_date"]) only.
WindowKey_CloseOnly(w) == <<w.close_date>>

\* .sort_values(["close_date", "open_date"])
WindowKey(w) == <<w.close_date, w.open_date>>

BuildWindows ==
  /\ pc = "build"
  /\ windows' = LET grouped == GroupByCourseModAct(data)
                IN  StableSort(grouped, [k \in DOMAIN grouped |-> WindowKey(grouped[k])])
  /\ wi' = 1
  /\ pc' = "window"
  /\ UNCHANGED <<inputs, ledger, outputs, window_locals, counters, i, day_locals,
                 si, raised, returned>>

\* ------------------------------------------------------ main scheduling loop
course == windows[wi].Course
mod == windows[wi].ModAct
open_dt == windows[wi].open_date
close_dt == windows[wi].close_date

\* StartWindow without the "if not days" test.
StartWindow_NoDaysCheck ==
  /\ pc = "window"
  /\ wi <= Len(windows)
  /\ days' = business_days_inclusive(open_dt, close_dt, holidays)
  /\ student_count' = Get(students, course, DEFAULT_STUDENTS_OTHER)
  /\ seats_required' = SeatsRequired(student_count')
  /\ show_len' = get_show_length(course)
  /\ total_capacity' = 0
  /\ shows_for_pair' = 0
  /\ i' = 1
  /\ pc' = "pass1_day"
  /\ UNCHANGED <<inputs, ledger, windows, wi, outputs, day_locals, si, raised, returned>>

\* Top of the loop body for the next window: the window has business days.
StartWindow ==
  /\ pc = "window"
  /\ wi <= Len(windows)
  /\ LET found == business_days_inclusive(open_dt, close_dt, holidays)
     IN  /\ found # <<>>
         /\ days' = found
  /\ student_count' = Get(students, course, DEFAULT_STUDENTS_OTHER)
  /\ seats_required' = SeatsRequired(student_count')
  /\ show_len' = get_show_length(course)
  /\ total_capacity' = 0
  /\ shows_for_pair' = 0
  /\ i' = 1
  /\ pc' = "pass1_day"
  /\ UNCHANGED <<inputs, ledger, windows, wi, outputs, day_locals, si, raised, returned>>

\* raise ValueError("No business days in window for (course, mod).")
ConfigError ==
  /\ pc = "window"
  /\ wi <= Len(windows)
  /\ business_days_inclusive(open_dt, close_dt, holidays) = <<>>
  /\ student_count' = Get(students, course, DEFAULT_STUDENTS_OTHER)
  /\ seats_required' = SeatsRequired(student_count')
  /\ show_len' = get_show_length(course)
  /\ days' = <<>>
  /\ raised' = [type |-> "ValueError", what |-> "No business days in window",
                course |-> course, mod |-> mod]
  /\ pc' = "raised"
  /\ UNCHANGED <<inputs, ledger, windows, wi, outputs, counters, i, day_locals, si,
                 returned>>

\* The first pod of pods_sorted_for_slot() that can_place accepts at start_min
\* on day d for the current window; <<>> when the pod loop ends without a break.
\* The sorted list and the set of accepted positions are bound as values, so
\* that each is computed once.
FirstPod(d, start_min) ==
  LET Accepted(order) ==
        {r \in DOMAIN order :
           can_place(d, order[r].pod, order[r].ops_group, start_min,
                     course, mod, d, show_len)}
      First(order, ok) == IF ok = {} THEN <<>> ELSE <<order[Min(ok)]>>
  IN  CHOOSE hit \in UNION { {First(order, ok) : ok \in {Accepted(order)}} :
                               order \in {pods_sorted_for_slot} } : TRUE

\* In the visit actions below d, start_min and hit are the locals of the loop
\* body; each is bound to its one value.
\* The row appended to schedule_rows for a show.
ScheduleRow(d, start_min, podinfo) ==
  [Course |-> course, ModAct |-> mod, Date |-> d,
   Start |-> time_from_minutes(start_min),
   End |-> time_from_minutes(start_min + show_len),
   Pod |-> podinfo.pod, PodCapacity |-> podinfo.capacity, ShowLength |-> show_len]

\* --- PASS 1: Distributed (First to Last) ---
\* for i, d in enumerate(days): a day is entered.
Pass1BeginDay ==
  /\ pc = "pass1_day"
  /\ i <= Len(days)
  /\ ~(total_capacity >= seats_required)
  /\ daily_target' = DailyTarget(i, TotalWeight(Len(days)), seats_required)
  /\ day_capacity_filled' = 0
  /\ si' = 1
  /\ pc' = "pass1_slot"
  /\ UNCHANGED <<inputs, ledger, windows, wi, outputs, window_locals, counters, i,
                 raised, returned>>

\* Pass1Visit with the day's target as the only stop condition of the start loop.
Pass1Visit_DayTargetOnly ==
  /\ pc = "pass1_slot"
  /\ si <= Len(candidate_starts_for_date(days[i], show_len))
  /\ ~(day_capacity_filled >= daily_target)
  /\ \E d \in {days[i]} :
     \E start_min \in {candidate_starts_for_date(d, show_len)[si]} :
     \E hit \in {FirstPod(d, start_min)} :
         IF hit # <<>>
         THEN /\ place(d, hit[1].pod, hit[1].ops_group, start_min, course, mod, show_len)
              /\ schedule_rows' = Append(schedule_rows, ScheduleRow(d, start_min, hit[1]))
              /\ total_capacity' = total_capacity + hit[1].capacity
              /\ shows_for_pair' = shows_for_pair + 1
              /\ day_capacity_filled' = day_capacity_filled + hit[1].capacity
         ELSE UNCHANGED <<ledger, schedule_rows, counters, day_capacity_filled>>
  /\ si' = si + 1
  /\ UNCHANGED <<inputs, pc, windows, wi, summary_rows, window_locals, i,
                 daily_target, raised, returned>>

\* Pass1Visit over pods kept in a set: among the accepted pods of the best
\* (capacity, usage) key any one may come first.
Pass1Visit_TiesInAnyOrder ==
  /\ pc = "pass1_slot"
  /\ si <= Len(candidate_starts_for_date(days[i], show_len))
  /\ ~(total_capacity >= seats_required \/ day_capacity_filled >= daily_target)
  /\ \E d \in {days[i]} :
     \E start_min \in {candidate_starts_for_date(d, show_len)[si]} :
     \E first \in {FirstPod(d, start_min)} :
     \E hit \in IF first = <<>> THEN {<<>>}
                ELSE {<<PODS[k]>> : k \in {k \in DOMAIN PODS :
                        /\ PodKey(PODS[k]) = PodKey(first[1])
                        /\ can_place(d, PODS[k].pod, PODS[k].ops_group, start_min,
                                     course, mod, d, show_len)}} :
         IF hit # <<>>
         THEN /\ place(d, hit[1].pod, hit[1].ops_group, start_min, course, mod, show_len)
              /\ schedule_rows' = Append(schedule_rows, ScheduleRow(d, start_min, hit[1]))
              /\ total_capacity' = total_capacity + hit[1].capacity
              /\ shows_for_pair' = shows_for_pair + 1
              /\ day_capacity_filled' = day_capacity_filled + hit[1].capacity
         ELSE UNCHANGED <<ledger, schedule_rows, counters, day_capacity_filled>>
  /\ si' = si + 1
  /\ UNCHANGED <<inputs, pc, windows, wi, summary_rows, window_locals, i,
                 daily_target, raised, returned>>

\* One iteration of "for start_min in candidate_starts" in Pass 1.
Pass1Visit ==
  /\ pc = "pass1_slot"
  /\ si <= Len(candidate_starts_for_date(days[i], show_len))
  /\ ~(total_capacity >= seats_required \/ day_capacity_filled >= daily_target)
  /\ \E d \in {days[i]} :
     \E start_min \in {candidate_starts_for_date(d, show_len)[si]} :
     \E hit \in {FirstPod(d, start_min)} :
         IF hit # <<>>
         THEN /\ place(d, hit[1].pod, hit[1].ops_group, start_min, course, mod, show_len)
              /\ schedule_rows' = Append(schedule_rows, ScheduleRow(d, start_min, hit[1]))
              /\ total_capacity' = total_capacity + hit[1].capacity
              /\ shows_for_pair' = shows_for_pair + 1
              /\ day_capacity_filled' = day_capacity_filled + hit[1].capacity
         ELSE UNCHANGED <<ledger, schedule_rows, counters, day_capacity_filled>>
  /\ si' = si + 1
  /\ UNCHANGED <<inputs, pc, windows, wi, summary_rows, window_locals, i,
                 daily_target, raised, returned>>

\* The start loop of a Pass 1 day ends: exhausted, or left by its break.
Pass1EndDay ==
  /\ pc = "pass1_slot"
  /\ \/ si > Len(candidate_starts_for_date(days[i], show_len))
     \/ total_capacity >= seats_required
     \/ day_capacity_filled >= daily_target
  /\ i' = i + 1
  /\ pc' = "pass1_day"
  /\ UNCHANGED <<inputs, ledger, windows, wi, outputs, window_locals, counters,
                 day_locals, si, raised, returned>>

\* Pass1End without the "if total_capacity < seats_required" test of Pass 2.
Pass1End_AlwaysPass2 ==
  /\ pc = "pass1_day"
  /\ i > Len(days) \/ total_capacity >= seats_required
  /\ pc' = "pass2_day" /\ i' = Len(days)
  /\ UNCHANGED <<inputs, ledger, windows, wi, outputs, window_locals, counters,
                 day_locals, si, raised, returned>>

\* Pass1End entering Pass 2 with "for d in days", without reversed().
Pass1End_Pass2Ascending ==
  /\ pc = "pass1_day"
  /\ i > Len(days) \/ total_capacity >= seats_required
  /\ IF total_capacity < seats_required
     THEN pc' = "pass2_day" /\ i' = 1
     ELSE pc' = "check" /\ i' = i
  /\ UNCHANGED <<inputs, ledger, windows, wi, outputs, window_locals, counters,
                 day_locals, si, raised, returned>>

\* The day loop of Pass 1 ends; Pass 2 is entered if seats are still missing.
Pass1End ==
  /\ pc = "pass1_day"
  /\ i > Len(days) \/ total_capacity >= seats_required
  /\ IF total_capacity < seats_required
     THEN pc' = "pass2_day" /\ i' = Len(days)
     ELSE pc' = "check" /\ i' = i
  /\ UNCHANGED <<inputs, ledger, windows, wi, outputs, window_locals, counters,
                 day_locals, si, raised, returned>>

\* --- PASS 2: Catch-up (Last to First) ---
\* for d in reversed(days): a day is entered; i runs from len(days) down to 1.
Pass2BeginDay ==
  /\ pc = "pass2_day"
  /\ i >= 1
  /\ ~(total_capacity >= seats_required)
  /\ si' = 1
  /\ pc' = "pass2_slot"
  /\ UNCHANGED <<inputs, ledger, windows, wi, outputs, window_locals, counters, i,
                 day_locals, raised, returned>>

\* Pass2Visit without "total_capacity += cap".
Pass2Visit_NoTotalUpdate ==
  /\ pc = "pass2_slot"
  /\ si <= Len(candidate_starts_for_date(days[i], show_len))
  /\ ~(total_capacity >= seats_required)
  /\ \E d \in {days[i]} :
     \E start_min \in {candidate_starts_for_date(d, show_len)[si]} :
     \E hit \in {FirstPod(d, start_min)} :
         IF hit # <<>>
         THEN /\ place(d, hit[1].pod, hit[1].ops_group, start_min, course, mod, show_len)
              /\ schedule_rows' = Append(schedule_rows, ScheduleRow(d, start_min, hit[1]))
              /\ shows_for_pair' = shows_for_pair + 1
              /\ UNCHANGED total_capacity
         ELSE UNCHANGED <<ledger, schedule_rows, counters>>
  /\ si' = si + 1
  /\ UNCHANGED <<inputs, pc, windows, wi, summary_rows, window_locals, i,
                 day_locals, raised, returned>>

\* Pass2Visit without the test of seats_required before a start is tried.
Pass2Visit_NoStop ==
  /\ pc = "pass2_slot"
  /\ si <= Len(candidate_starts_for_date(days[i], show_len))
  /\ \E d \in {days[i]} :
     \E start_min \in {candidate_starts_for_date(d, show_len)[si]} :
     \E hit \in {FirstPod(d, start_min)} :
         IF hit # <<>>
         THEN /\ place(d, hit[1].pod, hit[1].ops_group, start_min, course, mod, show_len)
              /\ schedule_rows' = Append(schedule_rows, ScheduleRow(d, start_min, hit[1]))
              /\ total_capacity' = total_capacity + hit[1].capacity
              /\ shows_for_pair' = shows_for_pair + 1
         ELSE UNCHANGED <<ledger, schedule_rows, counters>>
  /\ si' = si + 1
  /\ UNCHANGED <<inputs, pc, windows, wi, summary_rows, window_locals, i,
                 day_locals, raised, returned>>

\* Pass2Visit without shows_for_pair += 1.
Pass2Visit_NoShowCount ==
  /\ pc = "pass2_slot"
  /\ si <= Len(candidate_starts_for_date(days[i], show_len))
  /\ ~(total_capacity >= seats_required)
  /\ \E d \in {days[i]} :
     \E start_min \in {candidate_starts_for_date(d, show_len)[si]} :
     \E hit \in {FirstPod(d, start_min)} :
         IF hit # <<>>
         THEN /\ place(d, hit[1].pod, hit[1].ops_group, start_min, course, mod, show_len)
              /\ schedule_rows' = Append(schedule_rows, ScheduleRow(d, start_min, hit[1]))
              /\ total_capacity' = total_capacity + hit[1].capacity
              /\ shows_for_pair' = shows_for_pair
         ELSE UNCHANGED <<ledger, schedule_rows, counters>>
  /\ si' = si + 1
  /\ UNCHANGED <<inputs, pc, windows, wi, summary_rows, window_locals, i,
                 day_locals, raised, returned>>

\* One iteration of "for start_min in candidate_starts" in Pass 2.
Pass2Visit ==
  /\ pc = "pass2_slot"
  /\ si <= Len(candidate_starts_for_date(days[i], show_len))
  /\ ~(total_capacity >= seats_required)
  /\ \E d \in {days[i]} :
     \E start_min \in {candidate_starts_for_date(d, show_len)[si]} :
     \E hit \in {FirstPod(d, start_min)} :
         IF hit # <<>>
         THEN /\ place(d, hit[1].pod, hit[1].ops_group, start_min, course, mod, show_len)
              /\ schedule_rows' = Append(schedule_rows, ScheduleRow(d, start_min, hit[1]))
              /\ total_capacity' = total_capacity + hit[1].capacity
              /\ shows_for_pair' = shows_for_pair + 1
         ELSE UNCHANGED <<ledger, schedule_rows, counters>>
  /\ si' = si + 1
  /\ UNCHANGED <<inputs, pc, windows, wi, summary_rows, window_locals, i,
                 day_locals, raised, returned>>

\* Pass2EndDay that stays on the same day.
Pass2EndDay_SameDay ==
  /\ pc = "pass2_slot"
  /\ \/ si > Len(candidate_starts_for_date(days[i], show_len))
     \/ total_capacity >= seats_required
  /\ i' = i
  /\ pc' = "pass2_day"
  /\ UNCHANGED <<inputs, ledger, windows, wi, outputs, window_locals, counters,
                 day_locals, si, raised, returned>>

\* The start loop of a Pass 2 day ends: exhausted, or left by its break.
Pass2EndDay ==
  /\ pc = "pass2_slot"
  /\ \/ si > Len(candidate_starts_for_date(days[i], show_len))
     \/ total_capacity >= seats_required
  /\ i' = i - 1
  /\ pc' = "pass2_day"
  /\ UNCHANGED <<inputs, ledger, windows, wi, outputs, window_locals, counters,
                 day_locals, si, raised, returned>>

\* The day loop of Pass 2 ends.
Pass2End ==
  /\ pc = "pass2_day"
  /\ i < 1 \/ total_capacity >= seats_required
  /\ pc' = "check"
  /\ UNCHANGED <<inputs, ledger, windows, wi, outputs, window_locals, counters, i,
                 day_locals, si, raised, returned>>

\* CapacityError that records the error and goes on with the next window.
CapacityError_Continue ==
  /\ pc = "check"
  /\ total_capacity < seats_required
  /\ raised' = [type |-> "ValueError", what |-> "Not enough capacity to schedule",
                course |-> course, mod |-> mod,
                open |-> open_dt, close |-> close_dt,
                total_capacity |-> total_capacity,
                seats_required |-> seats_required]
  /\ wi' = wi + 1
  /\ pc' = "window"
  /\ UNCHANGED <<inputs, ledger, windows, outputs, window_locals, counters, i,
                 day_locals, si, returned>>

\* CapacityError that hands back the rows collected so far.
CapacityError_ReturnsPartial ==
  /\ pc = "check"
  /\ total_capacity < seats_required
  /\ raised' = [type |-> "ValueError", what |-> "Not enough capacity to schedule",
                course |-> course, mod |-> mod,
                open |-> open_dt, close |-> close_dt,
                total_capacity |-> total_capacity,
                seats_required |-> seats_required]
  /\ returned' = [schedule_df |-> schedule_rows, summary_df |-> summary_rows, set |-> TRUE]
  /\ pc' = "raised"
  /\ UNCHANGED <<inputs, ledger, windows, wi, outputs, window_locals, counters, i,
                 day_locals, si>>

\* raise ValueError("Not enough capacity to schedule ... Could only schedule
\* {total_capacity} of {seats_required} seats.")
CapacityError ==
  /\ pc = "check"
  /\ total_capacity < seats_required
  /\ raised' = [type |-> "ValueError", what |-> "Not enough capacity to schedule",
                course |-> course, mod |-> mod,
                open |-> open_dt, close |-> close_dt,
                total_capacity |-> total_capacity,
                seats_required |-> seats_required]
  /\ pc' = "raised"
  /\ UNCHANGED <<inputs, ledger, windows, wi, outputs, window_locals, counters, i,
                 day_locals, si, returned>>

\* summary_rows.append({...}); the main loop moves to the next window.
CompleteWindow ==
  /\ pc = "check"
  /\ ~(total_capacity < seats_required)
  /\ summary_rows' = Append(summary_rows,
       [Course |-> course, ModAct |-> mod, Students |-> student_count,
        Buffer |-> BUFFER_PCT, SeatsRequired |-> seats_required,
        ScheduledSeats |-> total_capacity, ShowsScheduled |-> shows_for_pair,
        ShowLength |-> show_len, Open |-> open_dt, Close |-> close_dt])
  /\ wi' = wi + 1
  /\ pc' = "window"
  /\ UNCHANGED <<inputs, ledger, windows, schedule_rows, window_locals, counters, i,
                 day_locals, si, raised, returned>>

\* ---------------------------------------------------- create output frames
\* .sort_values(["Date", "Start", "Pod"]): "%Y-%m-%d" strings compare as
\* dates, "%H:%M" strings as (hour, minute), pod names as their position in PODS.
ScheduleRowKey(row) ==
  <<row.Date, row.Start.hour, row.Start.minute,
    CHOOSE k \in DOMAIN PODS : PODS[k].pod = row.Pod>>

\* .sort_values(["Course", "Mod/Act"])
SummaryRowKey(row) == <<IndexOf(CourseNames, row.Course), IndexOf(ModActs, row.ModAct)>>

\* The main loop is over. A frame built from no rows has no columns, and
\* sort_values on it raises KeyError; otherwise both frames are returned.
Return ==
  /\ pc = "window"
  /\ wi > Len(windows)
  /\ IF schedule_rows = <<>>
     THEN /\ raised' = [type |-> "KeyError", what |-> "Date"]
          /\ pc' = "raised"
          /\ UNCHANGED returned
     ELSE /\ returned' =
               [schedule_df |->
                  StableSort(schedule_rows,
                             [k \in DOMAIN schedule_rows |-> ScheduleRowKey(schedule_rows[k])]),
                summary_df |->
                  StableSort(summary_rows,
                             [k \in DOMAIN summary_rows |-> SummaryRowKey(summary_rows[k])]),
                set |-> TRUE]
          /\ pc' = "returned"
          /\ UNCHANGED raised
  /\ UNCHANGED <<inputs, ledger, windows, wi, outputs, window_locals, counters, i,
                 day_locals, si>>

Next ==
  \/ BuildWindows
  \/ StartWindow
  \/ ConfigError
  \/ Pass1BeginDay
  \/ Pass1Visit
  \/ Pass1EndDay
  \/ Pass1End
  \/ Pass2BeginDay
  \/ Pass2Visit
  \/ Pass2EndDay
  \/ Pass2End
  \/ CapacityError
  \/ CompleteWindow
  \/ Return

Spec == Init /\ [][Next]_vars

\* schedule() is one sequential computation: whenever a step is possible the
\* interpreter takes it.
FairSpec == Spec /\ WF_vars(Next)

\* ================================================================== claims
\* The bookings are the rows emitted to schedule_rows, one per placement.
StartMin(row) == minutes(row.Start)
EndMin(row) == minutes(row.End)
SamePodDay(a, b) == a.Date = b.Date /\ a.Pod = b.Pod
SameActivity(a, b) == a.Course = b.Course /\ a.ModAct = b.ModAct

\* C1. Non-overlap: in every reachable state no two bookings in the same pod
\* on the same day have intersecting [start, end) intervals.
C1_NonOverlap ==
  \A x \in DOMAIN schedule_rows : \A y \in (x + 1)..Len(schedule_rows) :
    LET a == schedule_rows[x]
        b == schedule_rows[y]
    IN  SamePodDay(a, b) => (EndMin(a) <= StartMin(b) \/ EndMin(b) <= StartMin(a))

\* C1 witness: a pod holds, on one day, two abutting shows of one window and a
\* show of another window.
C1_Witness ==
  /\ \E x \in DOMAIN schedule_rows : \E y \in (x + 1)..Len(schedule_rows) :
       LET a == schedule_rows[x]
           b == schedule_rows[y]
       IN  SamePodDay(a, b) /\ SameActivity(a, b) /\ EndMin(a) = StartMin(b)
  /\ \E x \in DOMAIN schedule_rows : \E y \in (x + 1)..Len(schedule_rows) :
       LET a == schedule_rows[x]
           b == schedule_rows[y]
       IN  SamePodDay(a, b) /\ ~SameActivity(a, b)

\* C2. Break spacing: two bookings in the same pod on the same day that belong
\* to different (course, activity) pairs are at least BREAK_LEN minutes apart,
\* whichever of the two was placed first.
C2_BreakSpacing ==
  \A x \in DOMAIN schedule_rows : \A y \in (x + 1)..Len(schedule_rows) :
    LET a == schedule_rows[x]
        b == schedule_rows[y]
    IN  (SamePodDay(a, b) /\ ~SameActivity(a, b)) =>
          \/ StartMin(b) >= EndMin(a) + BREAK_LEN
          \/ StartMin(a) >= EndMin(b) + BREAK_LEN

\* C2 witness: a show starts exactly BREAK_LEN minutes after the end of a
\* show of another activity in the same pod.
C2_Witness ==
  \E x \in DOMAIN schedule_rows : \E y \in (x + 1)..Len(schedule_rows) :
    LET a == schedule_rows[x]
        b == schedule_rows[y]
    IN  /\ SamePodDay(a, b) /\ ~SameActivity(a, b)
        /\ StartMin(b) = EndMin(a) + BREAK_LEN

\* C3. Shared-team exclusivity: bookings of one day in pods of one ops group
\* have pairwise distinct starts and pairwise distinct ends.
C3_TeamExclusive ==
  \A x \in DOMAIN schedule_rows : \A y \in (x + 1)..Len(schedule_rows) :
    LET a == schedule_rows[x]
        b == schedule_rows[y]
    IN  (a.Date = b.Date /\ OPS_GROUP(a.Pod) = OPS_GROUP(b.Pod)) =>
          (StartMin(a) # StartMin(b) /\ EndMin(a) # EndMin(b))

\* C3 witness: one team runs, on one day, shows of different lengths from
\* different windows in different pods, at overlapping times.
C3_Witness ==
  \E x \in DOMAIN schedule_rows : \E y \in (x + 1)..Len(schedule_rows) :
    LET a == schedule_rows[x]
        b == schedule_rows[y]
    IN  /\ a.Date = b.Date /\ OPS_GROUP(a.Pod) = OPS_GROUP(b.Pod) /\ a.Pod # b.Pod
        /\ a.ShowLength # b.ShowLength /\ ~SameActivity(a, b)
        /\ StartMin(a) < EndMin(b) /\ StartMin(b) < EndMin(a)

\* The seats of a window: the pod capacities of its first n bookings, summed.
RECURSIVE SeatsOf(_, _, _)
SeatsOf(c, m, n) ==
  IF n = 0 THEN 0
  ELSE SeatsOf(c, m, n - 1)
       + (IF schedule_rows[n].Course = c /\ schedule_rows[n].ModAct = m
          THEN POD_CAPACITY(schedule_rows[n].Pod) ELSE 0)

LargestPod == Max({PODS[k].capacity : k \in DOMAIN PODS})

\* C4. Capacity bound: the bookings of every window whose processing completed
\* without error seat at least its seats-required and at most seats-required
\* plus the capacity of the largest pod.
C4_CapacityBound ==
  \A k \in DOMAIN summary_rows :
    LET w == summary_rows[k]
        seats == SeatsOf(w.Course, w.ModAct, Len(schedule_rows))
    IN  w.SeatsRequired <= seats /\ seats <= w.SeatsRequired + LargestPod

\* C4 witness: two windows are complete; one of them needed Pass 2 behind the
\* other's bookings and ends above its requirement by more than a small pod.
C4_Witness ==
  /\ Len(summary_rows) = 2
  /\ \E k \in DOMAIN summary_rows :
       LET w == summary_rows[k]
       IN  SeatsOf(w.Course, w.ModAct, Len(schedule_rows)) > w.SeatsRequired + 6
  /\ students = StressDict

\* C5. Operating hours: every booking starts at or after 09:00 and ends at or
\* before 13:00 on a Friday, 17:00 on the other days.
C5_OperatingHours ==
  \A x \in DOMAIN schedule_rows :
    LET a == schedule_rows[x]
    IN  /\ StartMin(a) >= minutes(START_HOUR)
        /\ EndMin(a) <= (IF a.Date % 7 = 4 THEN minutes(END_HOUR_FRIDAY)
                                           ELSE minutes(END_HOUR_REGULAR))

\* C5 witness: a show ends at 13:00 on a Friday, another at 17:00 on a Thursday.
C5_Witness ==
  /\ \E x \in DOMAIN schedule_rows :
       schedule_rows[x].Date % 7 = 4 /\ EndMin(schedule_rows[x]) = minutes(END_HOUR_FRIDAY)
  /\ \E x \in DOMAIN schedule_rows :
       schedule_rows[x].Date % 7 = 3 /\ EndMin(schedule_rows[x]) = minutes(END_HOUR_REGULAR)

\* C6. Calendar validity: every booking's day is a Monday-to-Friday date that
\* is not in the holiday set.
C6_CalendarValid ==
  \A x \in DOMAIN schedule_rows :
    schedule_rows[x].Date % 7 \in 0..4 /\ schedule_rows[x].Date \notin holidays

\* C6 witness: a window that opens on a holiday Friday and closes on the Monday
\* after the weekend has its bookings on the Monday.
C6_Witness ==
  /\ holidays = {4}
  /\ pc = "check"
  /\ open_dt = 4 /\ close_dt = 7
  /\ \E x \in DOMAIN schedule_rows :
       /\ schedule_rows[x].Course = course /\ schedule_rows[x].ModAct = mod
       /\ schedule_rows[x].Date = 7

\* The (day, start, pod) combinations of the current window that can_place
\* accepts in the current ledger.
LegalPlacements ==
  { t \in Range(days) \X (0..287) \X DOMAIN PODS :
      /\ t[2] * STEP_MIN \in Range(candidate_starts_for_date(t[1], show_len))
      /\ can_place(t[1], PODS[t[3]].pod, PODS[t[3]].ops_group, t[2] * STEP_MIN,
                   course, mod, t[1], show_len) }

\* C7. Capacity exhaustion is genuine: when the run fails with the
\* capacity-exhausted error for a window, no business day of the window,
\* candidate start on the grid and pod is left for which can_place holds in the
\* ledger at the moment of failure.
C7_ExhaustionGenuine ==
  (pc = "raised" /\ raised.type = "ValueError"
     /\ raised.what = "Not enough capacity to schedule")
  => LegalPlacements = {}

\* C8. Append-only ledger, no preemption: a booking (day, pod, start) that is
\* in the ledger is there after every step with the same end, course, activity
\* and duration; no step removes, moves or overwrites it.
C8_AppendOnly ==
  [][\A key \in DOMAIN all_bookings :
       key \in DOMAIN all_bookings' /\ all_bookings'[key] = all_bookings[key]]_vars

\* C8 witness: a later window has placed a show on a day where the bookings of
\* an earlier, completed window are in the ledger.
C8_Witness ==
  /\ Len(summary_rows) >= 1
  /\ \E k1 \in DOMAIN all_bookings : \E k2 \in DOMAIN all_bookings :
       /\ k1[1] = k2[1]
       /\ all_bookings[k1].course = summary_rows[1].Course
       /\ all_bookings[k1].mod_act = summary_rows[1].ModAct
       /\ <<all_bookings[k2].course, all_bookings[k2].mod_act>>
            # <<summary_rows[1].Course, summary_rows[1].ModAct>>

\* The window of a booking row, from the input rows of its (Course, Mod/Act).
InputRowsOf(row) ==
  {k \in DOMAIN data : data[k].Course = row.Course /\ data[k].ModAct = row.ModAct}

OpenOf(row) == Min({data[k].Open : k \in InputRowsOf(row)})

CloseOf(row) == Max({data[k].Close : k \in InputRowsOf(row)})

SameWindow(a, b) == a.Course = b.Course /\ a.ModAct = b.ModAct

\* Window of a comes before window of b: close date ascending, then open date.
WindowBefore(a, b) ==
  \/ CloseOf(a) < CloseOf(b)
  \/ CloseOf(a) = CloseOf(b) /\ OpenOf(a) < OpenOf(b)

\* C9. Window processing order: windows are processed one at a time, close
\* date ascending then open date ascending. In placement order (the order of
\* schedule_rows) the bookings of a window are contiguous, and no booking of a
\* window comes after a booking of a window that follows it in this order.
C9_WindowOrder ==
  \A x \in DOMAIN schedule_rows : \A y \in (x + 1)..Len(schedule_rows) :
    LET a == schedule_rows[x]
        b == schedule_rows[y]
    IN  IF SameWindow(a, b) THEN SameWindow(a, schedule_rows[x + 1])
                            ELSE ~WindowBefore(b, a)

\* C9 witness: two windows close on the same day; the one that opens earlier
\* comes later in (Course, Mod/Act) order and has its bookings placed first.
C9_Witness ==
  \E x \in DOMAIN schedule_rows : \E y \in (x + 1)..Len(schedule_rows) :
    LET a == schedule_rows[x]
        b == schedule_rows[y]
    IN  /\ CloseOf(a) = CloseOf(b) /\ OpenOf(a) < OpenOf(b)
        /\ CourseLess(b.Course, a.Course)

\* The window about to be processed has no Monday-to-Friday, non-holiday date
\* in open..close (an inverted range has no date at all).
ZeroBusinessDays ==
  /\ pc = "window" /\ wi <= Len(windows)
  /\ ~ \E d \in open_dt..close_dt : d % 7 \in 0..4 /\ d \notin holidays

ConfigErrorRaised ==
  pc = "raised" /\ raised.type = "ValueError" /\ raised.what = "No business days in window"

\* C10. Configuration error: when the range of the window about to be processed
\* contains zero business days after holiday exclusion (an inverted range
\* included), the very next step fails the run with the configuration error and
\* leaves the ledger and the booking rows as they were at the end of the
\* previous window; in the failed state no booking of that window exists.
C10_ConfigErrorImmediate ==
  /\ [][ZeroBusinessDays =>
          /\ ConfigErrorRaised'
          /\ raised'.course = course /\ raised'.mod = mod
          /\ UNCHANGED <<ledger, schedule_rows, summary_rows>>]_vars
  /\ [](ConfigErrorRaised =>
          /\ \A x \in DOMAIN schedule_rows :
               ~(schedule_rows[x].Course = course /\ schedule_rows[x].ModAct = mod)
          /\ \A key \in DOMAIN all_bookings :
               ~(all_bookings[key].course = course /\ all_bookings[key].mod_act = mod))

\* C10 witness: the second window lies on a holiday and fails with the
\* configuration error after the first window placed its bookings.
C10_Witness ==
  /\ ConfigErrorRaised
  /\ wi = 2
  /\ Len(summary_rows) = 1
  /\ schedule_rows # <<>>
  /\ open_dt <= close_dt

\* One of the two fatal errors of the main loop has been raised.
FatalErrorRaised == raised.type = "ValueError"

\* C11. No continuation past a failure: once a fatal error has been raised for
\* a window the run is over. No step is possible any more, and no step changes
\* the ledger, the booking rows, the summary rows or the window index, or
\* returns a result.
C11_NoContinuation ==
  /\ [](FatalErrorRaised => pc = "raised" /\ ~ENABLED Next)
  /\ [][FatalErrorRaised =>
          UNCHANGED <<ledger, schedule_rows, summary_rows, wi, pc, returned>>]_vars

\* C11 witness: the capacity error is raised for a window that has bookings
\* while a later window is still unprocessed.
C11_Witness ==
  /\ FatalErrorRaised
  /\ raised.what = "Not enough capacity to schedule"
  /\ wi < Len(windows)
  /\ \E x \in DOMAIN schedule_rows :
       schedule_rows[x].Course = course /\ schedule_rows[x].ModAct = mod

CapacityErrorRaised ==
  pc = "raised" /\ raised.type = "ValueError"
    /\ raised.what = "Not enough capacity to schedule"

\* The seat numbers written into the capacity error.
SeatNumbersIn(err) == {err.total_capacity, err.seats_required}

AllWindowsCompleted ==
  /\ pc \in {"returned", "raised"}
  /\ wi > Len(windows)
  /\ Len(summary_rows) = Len(windows)

\* The run ended with a fatal error at window wi, every window before it
\* having been completed.
AbortedAtWindow ==
  /\ FatalErrorRaised /\ pc = "raised"
  /\ wi <= Len(windows)
  /\ Len(summary_rows) = wi - 1

\* C13. Termination: every run eventually reaches a final state, either with
\* all windows completed or aborted at the first window that is unsatisfiable
\* or malformed; no run goes on forever.
C13_Termination == <>(AllWindowsCompleted \/ AbortedAtWindow)

\* C13 witness: a run over two windows, one of them filled by Pass 2 as well,
\* has returned.
C13_Witness ==
  /\ pc = "returned"
  /\ Len(windows) = 2
  /\ students = StressDict

\* C14. Determinism: the inputs fix the run. Whatever step the run takes from
\* a state, no step to a different next state is possible from it, so two runs
\* from identical inputs go through the same placements and end with the same
\* booking and summary output.
C14_Determinism ==
  [][\A next \in {vars'} : ~ENABLED (Next /\ vars' # next)]_vars

\* C14 witness: shows have been placed, and at the start now visited two pods
\* of equal capacity and equal usage count are both accepted by can_place.
C14_Witness ==
  /\ pc = "pass1_slot"
  /\ schedule_rows # <<>>
  /\ si <= Len(candidate_starts_for_date(days[i], show_len))
  /\ \E p \in DOMAIN PODS : \E q \in DOMAIN PODS :
       /\ p < q
       /\ PodKey(PODS[p]) = PodKey(PODS[q])
       /\ \A k \in {p, q} :
            can_place(days[i], PODS[k].pod, PODS[k].ops_group,
                      candidate_starts_for_date(days[i], show_len)[si],
                      course, mod, days[i], show_len)

\* The duration configured for a course: 30 minutes for the prefixes Bio, CHM,
\* Astronomy and Art, 20 for Scm, and the default 20 for every other prefix.
ConfiguredDuration(c) ==
  IF c[1] \in {"Bio", "CHM", "Astronomy", "Art"} THEN 30
  ELSE IF c[1] = "Scm" THEN 20
  ELSE DEFAULT_SHOW_LEN

\* C15. Duration correctness: every booking's duration (end minus start) is
\* the duration configured for the first word of its course name, or the
\* default when that word is not in the table; all bookings of one window have
\* the same duration.
C15_DurationCorrect ==
  /\ \A x \in DOMAIN schedule_rows :
       LET a == schedule_rows[x]
       IN  /\ EndMin(a) - StartMin(a) = ConfiguredDuration(a.Course)
           /\ a.ShowLength = EndMin(a) - StartMin(a)
  /\ \A x \in DOMAIN schedule_rows :
       x > 1 /\ SameWindow(schedule_rows[x - 1], schedule_rows[x]) =>
         EndMin(schedule_rows[x]) - StartMin(schedule_rows[x])
           = EndMin(schedule_rows[x - 1]) - StartMin(schedule_rows[x - 1])

\* C15 witness: 30-minute shows of a mapped prefix and 20-minute shows of an
\* unmapped prefix are booked in one run.
C15_Witness ==
  /\ \E x \in DOMAIN schedule_rows :
       /\ schedule_rows[x].Course[1] = "Bio"
       /\ EndMin(schedule_rows[x]) - StartMin(schedule_rows[x]) = 30
  /\ \E x \in DOMAIN schedule_rows :
       /\ schedule_rows[x].Course[1] \notin DOMAIN SHOW_LENGTH_MAP
       /\ EndMin(schedule_rows[x]) - StartMin(schedule_rows[x]) = DEFAULT_SHOW_LEN

\* The raw rows of a (course, activity) pair.
RawRowsOf(c, m) == {k \in DOMAIN data : data[k].Course = c /\ data[k].ModAct = m}

\* C16. WindowBuilder: once the windows are built there is exactly one window
\* per distinct (course, activity) pair of the raw rows and none for any other
\* pair; its open date is the earliest open date and its close date the latest
\* close date among the rows of the pair.
C16_WindowBuilder ==
  pc # "build" =>
    /\ \A r \in DOMAIN data :
         Cardinality({k \in DOMAIN windows :
                        /\ windows[k].Course = data[r].Course
                        /\ windows[k].ModAct = data[r].ModAct}) = 1
    /\ \A k \in DOMAIN windows :
         LET mine == RawRowsOf(windows[k].Course, windows[k].ModAct)
         IN  /\ mine # {}
             /\ \E r \in mine : windows[k].open_date = data[r].Open
             /\ \A r \in mine : windows[k].open_date <= data[r].Open
             /\ \E r \in mine : windows[k].close_date = data[r].Close
             /\ \A r \in mine : windows[k].close_date >= data[r].Close

\* C16 witness: two raw rows of one pair are merged into one window that takes
\* its open date from one row and its close date from the other, and the
\* window has bookings.
C16_Witness ==
  /\ Len(data) = 2 /\ Len(windows) = 1
  /\ \E r \in DOMAIN data : windows[1].open_date < data[r].Open
  /\ \E r \in DOMAIN data : windows[1].close_date > data[r].Close
  /\ schedule_rows # <<>>

\* ceil(n x (1 + buffer fraction)) in exact arithmetic, the buffer in hundredths.
ExactSeats(n) == CeilDiv(n * (100 + BUFFER_PCT), 100)

\* The main loop is inside the body of window wi, past line 196.
InWindow ==
  pc \in {"pass1_day", "pass1_slot", "pass2_day", "pass2_slot", "check"}

\* C17. Seats required: for every window, seats-required equals
\* ceil(students x (1 + buffer fraction)), students being the count mapped to
\* the window's course or the configured default when the course is not mapped.
C17_SeatsRequired ==
  /\ InWindow =>
       /\ student_count = (IF course \in DOMAIN students THEN students[course]
                           ELSE DEFAULT_STUDENTS_OTHER)
       /\ seats_required = ExactSeats(student_count)
  /\ \A k \in DOMAIN summary_rows :
       summary_rows[k].SeatsRequired = ExactSeats(summary_rows[k].Students)

\* The reference predicate for a candidate (day, pod, team, start, duration,
\* course, activity) in the current ledger.
RefCanPlace(day, pod, team, start, dur, c, m) ==
  /\ \A key \in DOMAIN ops_used_starts :
       key = <<day, team>> => start \notin ops_used_starts[key]
  /\ \A key \in DOMAIN ops_used_ends :
       key = <<day, team>> => start + dur \notin ops_used_ends[key]
  /\ start + dur <= (IF day % 7 = 4 THEN 13 * 60 ELSE 17 * 60)
  /\ \A key \in DOMAIN all_bookings :
       (key[1] = day /\ key[2] = pod) =>
         LET s2 == key[3]
             e2 == all_bookings[key].end_min
         IN  IF all_bookings[key].course = c /\ all_bookings[key].mod_act = m
             THEN start + dur <= s2 \/ e2 <= start
             ELSE start >= e2 + BREAK_LEN \/ s2 >= start + dur + BREAK_LEN

\* The start offset the start loop is at.
VisitedStart == candidate_starts_for_date(days[i], show_len)[si]

AtVisit ==
  /\ pc \in {"pass1_slot", "pass2_slot"}
  /\ si <= Len(candidate_starts_for_date(days[i], show_len))

\* Another activity of the same course.
OtherModAct(m) == IF m = ModActs[1] THEN ModActs[2] ELSE ModActs[1]

\* C18. can_place equals its reference predicate: in every ledger state, for
\* the day and start being visited and every pod, team, duration and activity,
\* can_place is true exactly when the start is not a used start and start +
\* duration not a used end of (day, team), start + duration is not past the
\* day's closing, and every booking of the same (day, pod) either has the same
\* (course, activity) and does not overlap (abutting accepted) or is at least
\* the break length away in whichever direction the two are ordered.
C18_CanPlaceReference ==
  AtVisit =>
    \A p \in DOMAIN PODS : \A team \in {"A", "B"} : \A dur \in {20, 30} :
    \A m \in {mod, OtherModAct(mod)} :
      can_place(days[i], PODS[p].pod, team, VisitedStart, course, m, days[i], dur)
        <=> RefCanPlace(days[i], PODS[p].pod, team, VisitedStart, dur, course, m)

\* C18 witness: at the visited start a pod holds a show of the current window
\* that ends there; the same candidate is accepted for the window's own
\* activity and rejected for another activity.
C18_Witness ==
  /\ AtVisit
  /\ \E p \in DOMAIN PODS :
       /\ \E key \in DOMAIN all_bookings :
            /\ key[1] = days[i] /\ key[2] = PODS[p].pod
            /\ all_bookings[key].end_min = VisitedStart
       /\ can_place(days[i], PODS[p].pod, PODS[p].ops_group, VisitedStart,
                    course, mod, days[i], show_len)
       /\ ~can_place(days[i], PODS[p].pod, PODS[p].ops_group, VisitedStart,
                     course, OtherModAct(mod), days[i], show_len)

\* Pod q comes before pod p in the order of the pod search: larger capacity,
\* then lower usage count, then position in the PODS list.
PodBefore(q, p) ==
  \/ PODS[q].capacity > PODS[p].capacity
  \/ /\ PODS[q].capacity = PODS[p].capacity
     /\ pod_usage_count[PODS[q].pod] < pod_usage_count[PODS[p].pod]
  \/ /\ PODS[q].capacity = PODS[p].capacity
     /\ pod_usage_count[PODS[q].pod] = pod_usage_count[PODS[p].pod]
     /\ q < p

\* The pods can_place accepts for the current window at the visited start.
AcceptedPods ==
  {p \in DOMAIN PODS :
     can_place(days[i], PODS[p].pod, PODS[p].ops_group, VisitedStart,
               course, mod, days[i], show_len)}

\* C19. Pod choice: a step that visits a start offset, in either pass, books at
\* most one pod. The pod booked is accepted by can_place and no accepted pod
\* comes before it in the order (capacity descending, usage count ascending,
\* list order); when no pod is booked, none is accepted.
C19_PodChoice ==
  [][AtVisit /\ si' = si + 1 =>
       \/ /\ AcceptedPods = {}
          /\ UNCHANGED <<schedule_rows, all_bookings>>
       \/ \E p \in AcceptedPods :
            /\ \A q \in AcceptedPods : ~PodBefore(q, p)
            /\ Len(schedule_rows') = Len(schedule_rows) + 1
            /\ schedule_rows'[Len(schedule_rows')].Pod = PODS[p].pod
            /\ schedule_rows'[Len(schedule_rows')].Date = days[i]
            /\ StartMin(schedule_rows'[Len(schedule_rows')]) = VisitedStart
            /\ DOMAIN all_bookings'
                 = DOMAIN all_bookings \cup {<<days[i], PODS[p].pod, VisitedStart>>}]_vars

\* C19 witness: at the visited start a pod of larger capacity is rejected, and
\* of two accepted pods of equal capacity the one later in the list has the
\* lower usage count.
C19_Witness ==
  /\ AtVisit
  /\ schedule_rows # <<>>
  /\ \E p \in AcceptedPods : \E q \in AcceptedPods :
       /\ p < q
       /\ PODS[p].capacity = PODS[q].capacity
       /\ pod_usage_count[PODS[q].pod] < pod_usage_count[PODS[p].pod]
       /\ \E r \in DOMAIN PODS \ AcceptedPods : PODS[r].capacity > PODS[p].capacity

\* ceil(i / (1 + 2 + ... + N) x seats-required) in exact arithmetic.
ExactDailyTarget(day, num_days, seats) ==
  CeilDiv(day * seats, (num_days * (num_days + 1)) \div 2)

\* The seats the current window has placed on day d.
RECURSIVE DaySeatsOf(_, _)
DaySeatsOf(d, n) ==
  IF n = 0 THEN 0
  ELSE DaySeatsOf(d, n - 1)
       + (IF /\ schedule_rows[n].Course = course /\ schedule_rows[n].ModAct = mod
             /\ schedule_rows[n].Date = d
          THEN schedule_rows[n].PodCapacity ELSE 0)

\* C20. Pass 1 daily quota: with N business days in the window, day i has the
\* daily target ceil(i / (1 + ... + N) x seats-required); Pass 1 places a
\* booking on day i only while the seats the window has placed on day i are
\* below that target and the window's total is below seats-required; so the
\* Pass-1 seats of a day stay below the target plus the largest pod capacity.
C20_Pass1Quota ==
  /\ [](pc = "pass1_slot" =>
          /\ daily_target = ExactDailyTarget(i, Len(days), seats_required)
          /\ DaySeatsOf(days[i], Len(schedule_rows))
               < ExactDailyTarget(i, Len(days), seats_required) + LargestPod)
  /\ [][pc = "pass1_slot" /\ Len(schedule_rows') > Len(schedule_rows) =>
          /\ DaySeatsOf(days[i], Len(schedule_rows))
               < ExactDailyTarget(i, Len(days), seats_required)
          /\ SeatsOf(course, mod, Len(schedule_rows)) < seats_required]_vars

\* Pass 1 of the current window is over: its day loop has run out of days or
\* was left because seats-required is met. Every booking of the window so far
\* is a Pass-1 booking.
Pass1Over ==
  pc = "pass1_day" /\ (i > Len(days) \/ total_capacity >= seats_required)

\* The seats a day offers at its first four starts when nothing is booked on
\* it: the two largest pods of each team.
FreeDayOffer ==
  PODS[5].capacity + PODS[6].capacity + PODS[3].capacity + PODS[4].capacity

\* The window is processed against a ledger in which each of its business
\* days has enough free legal slots to reach its daily target: no other
\* window has been processed, and no target exceeds what a free day offers.
EnoughFreeSlots ==
  /\ wi = 1
  /\ \A k \in DOMAIN days :
       ExactDailyTarget(k, Len(days), seats_required) <= FreeDayOffer

\* C21. Pass 1 spreads a window's load toward later days without
\* front-loading: for a window processed against a ledger in which every
\* business day has enough free legal slots to reach its daily target, the
\* seats Pass 1 places on a later business day of the window are never fewer
\* than the seats it places on an earlier business day.
C21_Pass1Spread ==
  Pass1Over /\ EnoughFreeSlots =>
    \A a \in DOMAIN days : \A b \in DOMAIN days :
      a < b => DaySeatsOf(days[b], Len(schedule_rows))
                 >= DaySeatsOf(days[a], Len(schedule_rows))

\* C22. Upper capacity bound in every state: after every placement, in both
\* passes and for every window, completed, in progress or failing, the pod
\* capacities of the window's bookings sum to at most its seats-required plus
\* the capacity of the largest pod.
C22_UpperBoundAlways ==
  /\ \A k \in DOMAIN summary_rows :
       SeatsOf(summary_rows[k].Course, summary_rows[k].ModAct, Len(schedule_rows))
         <= summary_rows[k].SeatsRequired + LargestPod
  /\ (InWindow \/ CapacityErrorRaised) =>
       SeatsOf(course, mod, Len(schedule_rows)) <= seats_required + LargestPod
  /\ \A k \in DOMAIN windows :
       (k > wi \/ (k = wi /\ (pc = "window" \/ ConfigErrorRaised))) =>
         SeatsOf(windows[k].Course, windows[k].ModAct, Len(schedule_rows)) = 0

\* C22 witness: behind a completed window, a Pass-2 placement has just taken
\* the window in progress above its seats-required.
C22_Witness ==
  /\ pc = "pass2_slot"
  /\ Len(summary_rows) >= 1
  /\ SeatsOf(course, mod, Len(schedule_rows)) > seats_required

InPass2 == pc \in {"pass2_day", "pass2_slot"}

\* The last booking was placed by the Pass-2 visit just made: it is on the
\* visited day at the start before the current one, and the window already
\* had a booking at that day and start, which only Pass 1 can have placed.
Pass2JustPlaced ==
  /\ pc = "pass2_slot" /\ si > 1
  /\ \E n \in DOMAIN schedule_rows :
       /\ n = Len(schedule_rows)
       /\ schedule_rows[n].Date = days[i]
       /\ StartMin(schedule_rows[n])
            = candidate_starts_for_date(days[i], show_len)[si - 1]
       /\ \E k \in 1..(n - 1) :
            /\ schedule_rows[k].Course = course /\ schedule_rows[k].ModAct = mod
            /\ schedule_rows[k].Date = schedule_rows[n].Date
            /\ StartMin(schedule_rows[k]) = StartMin(schedule_rows[n])

\* C23. Pass 2 order: Pass 2 starts at the latest business day of the window
\* and goes to the next earlier day only when every candidate start of the day
\* has been visited or seats-required is met; within a day it visits the
\* starts in ascending order from the first one; a booking it places is on the
\* day and start being visited; a visited start gets a booking whenever a pod
\* is accepted, whatever the day's target; once seats-required is met it
\* places nothing more. So a Pass-2 booking on day d comes only after every
\* candidate start of every later business day was visited in Pass 2.
C23_Pass2Order ==
  [][/\ (~InPass2 /\ InPass2') => (pc' = "pass2_day" /\ i' = Len(days))
     /\ (pc = "pass2_day" /\ pc' = "pass2_slot") => (i' = i /\ si' = 1)
     /\ (pc = "pass2_slot" /\ pc' = "pass2_slot") =>
          /\ i' = i /\ si' = si + 1
          /\ total_capacity < seats_required
          /\ IF AcceptedPods = {}
             THEN schedule_rows' = schedule_rows
             ELSE /\ Len(schedule_rows') = Len(schedule_rows) + 1
                  /\ schedule_rows'[Len(schedule_rows')].Date = days[i]
                  /\ StartMin(schedule_rows'[Len(schedule_rows')]) = VisitedStart
     /\ (pc = "pass2_slot" /\ pc' # "pass2_slot") =>
          /\ pc' = "pass2_day" /\ i' = i - 1
          /\ schedule_rows' = schedule_rows
          /\ \/ si > Len(candidate_starts_for_date(days[i], show_len))
             \/ total_capacity >= seats_required
     /\ (pc = "pass2_day" /\ pc' # "pass2_slot") =>
          /\ pc' = "check" /\ schedule_rows' = schedule_rows
          /\ i < 1 \/ total_capacity >= seats_required]_vars

\* C23 witness: Pass 2 has booked a start of a day before the latest one.
C23_Witness == Pass2JustPlaced /\ i < Len(days)

InPass1 == pc \in {"pass1_day", "pass1_slot"}

\* C24. Pass 2 runs only on underfill: Pass 1 is left for Pass 2 exactly when
\* the window's scheduled seats are below seats-required, and for the capacity
\* check otherwise; after Pass 1 is left it is not entered again for the
\* window, so every Pass-1 booking precedes every Pass-2 booking; a booking
\* is placed outside Pass 1 only in Pass 2 and only while the window's seats
\* are below seats-required.
C24_Pass2OnlyOnUnderfill ==
  [][/\ (InPass1 /\ ~InPass1') =>
          /\ pc = "pass1_day"
          /\ pc' = IF SeatsOf(course, mod, Len(schedule_rows)) < seats_required
                   THEN "pass2_day" ELSE "check"
          /\ schedule_rows' = schedule_rows
     /\ (InPass2 \/ pc = "check") => (~InPass1' /\ wi' >= wi)
     /\ (InPass1' /\ ~InPass1) => (pc = "window" /\ wi' = wi)
     /\ (~InPass1 /\ schedule_rows' # schedule_rows) =>
          /\ pc = "pass2_slot"
          /\ SeatsOf(course, mod, Len(schedule_rows)) < seats_required
          /\ SeatsOf(course, mod, Len(schedule_rows)) = total_capacity]_vars

\* C24 witness: Pass 2 has just added a booking to the bookings of Pass 1.
C24_Witness == Pass2JustPlaced /\ i = Len(days)

\* The booking records placed on a day in the pods of a team.
RowsOfDayTeam(day, team) ==
  {k \in DOMAIN schedule_rows :
     schedule_rows[k].Date = day /\ OPS_GROUP(schedule_rows[k].Pod) = team}

DayTeamsBooked ==
  {<<schedule_rows[k].Date, OPS_GROUP(schedule_rows[k].Pod)>> : k \in DOMAIN schedule_rows}

LedgerConsistent ==
  /\ DOMAIN ops_used_starts = DayTeamsBooked
  /\ DOMAIN ops_used_ends = DayTeamsBooked
  /\ \A key \in DayTeamsBooked :
       /\ ops_used_starts[key]
            = {StartMin(schedule_rows[k]) : k \in RowsOfDayTeam(key[1], key[2])}
       /\ ops_used_ends[key]
            = {EndMin(schedule_rows[k]) : k \in RowsOfDayTeam(key[1], key[2])}
       /\ ops_used_starts[key]
            = {b[3] : b \in {b \in DOMAIN all_bookings :
                               b[1] = key[1] /\ OPS_GROUP(b[2]) = key[2]}}
       /\ ops_used_ends[key]
            = {all_bookings[b].end_min :
                 b \in {b \in DOMAIN all_bookings :
                          b[1] = key[1] /\ OPS_GROUP(b[2]) = key[2]}}
  /\ \A pod \in DOMAIN pod_usage_count :
       pod_usage_count[pod]
         = Cardinality({k \in DOMAIN schedule_rows : schedule_rows[k].Pod = pod})

\* A step that appends the booking record r changes the counter of r's pod
\* only, by one, and the entry of r's (day, team) only.
PlacementIsLocal ==
  Len(schedule_rows') = Len(schedule_rows) + 1 =>
    \E r \in {schedule_rows'[Len(schedule_rows')]} :
      \E key \in {<<r.Date, OPS_GROUP(r.Pod)>>} :
        /\ pod_usage_count' = [pod_usage_count EXCEPT ![r.Pod] = @ + 1]
        /\ DOMAIN ops_used_starts' = DOMAIN ops_used_starts \cup {key}
        /\ DOMAIN ops_used_ends' = DOMAIN ops_used_ends \cup {key}
        /\ \A other \in DOMAIN ops_used_starts \ {key} :
             ops_used_starts'[other] = ops_used_starts[other]
        /\ \A other \in DOMAIN ops_used_ends \ {key} :
             ops_used_ends'[other] = ops_used_ends[other]
        /\ ops_used_starts'[key] = Get(ops_used_starts, key, {}) \cup {StartMin(r)}
        /\ ops_used_ends'[key] = Get(ops_used_ends, key, {}) \cup {EndMin(r)}

\* C25. Ledger consistency: in every reachable state, for every (day, team)
\* the used starts (used ends) are exactly the start (end) offsets of the
\* bookings placed that day in pods of that team, and every pod's usage
\* counter equals the number of bookings placed in that pod; a placement
\* changes only the placed pod's counter and the placed (day, team) entry,
\* and a step that places nothing changes neither.
C25_LedgerConsistency ==
  /\ []LedgerConsistent
  /\ [][/\ PlacementIsLocal
        /\ Len(schedule_rows') = Len(schedule_rows) =>
             UNCHANGED <<ops_used_starts, ops_used_ends, pod_usage_count>>]_vars

\* C25 witness: both teams have bookings on one day, the second team on
\* another day too, one pod has been used twice and another not at all.
C25_Witness ==
  /\ \E d1 \in {key[1] : key \in DOMAIN ops_used_starts} :
       /\ <<d1, "A">> \in DOMAIN ops_used_starts
       /\ <<d1, "B">> \in DOMAIN ops_used_starts
       /\ Cardinality(ops_used_starts[<<d1, "A">>]) >= 2
       /\ \E key \in DOMAIN ops_used_ends : key[1] # d1
  /\ \E pod \in DOMAIN pod_usage_count : pod_usage_count[pod] >= 2
  /\ \E pod \in DOMAIN pod_usage_count : pod_usage_count[pod] = 0

\* The records of a list of booking records that belong to a window.
RecordsOf(rows, c, m) == {k \in DOMAIN rows : rows[k].Course = c /\ rows[k].ModAct = m}

\* Sum of the PodCapacity column over the first n records of the window in rows.
RECURSIVE CapacitySum(_, _, _, _)
CapacitySum(rows, c, m, n) ==
  IF n = 0 THEN 0
  ELSE CapacitySum(rows, c, m, n - 1)
       + (IF rows[n].Course = c /\ rows[n].ModAct = m THEN rows[n].PodCapacity ELSE 0)

\* Every summary row agrees with the booking records of its window.
SummaryAgrees(summary, rows) ==
  \A k \in DOMAIN summary :
    /\ summary[k].ScheduledSeats
         = CapacitySum(rows, summary[k].Course, summary[k].ModAct, Len(rows))
    /\ summary[k].ShowsScheduled
         = Cardinality(RecordsOf(rows, summary[k].Course, summary[k].ModAct))

\* summary has exactly one row for each window and no other row.
OneRowPerWindow(summary) ==
  /\ Len(summary) = Len(windows)
  /\ \A w \in DOMAIN windows :
       Cardinality({k \in DOMAIN summary :
                      /\ summary[k].Course = windows[w].Course
                      /\ summary[k].ModAct = windows[w].ModAct}) = 1

\* C26. Summary consistency: a run that completes returns exactly one summary
\* row per window, and in each row the seats scheduled are the sum of the pod
\* capacities of the returned booking records of the window and the session
\* count is the number of those records; the same holds for the summary rows
\* and booking records collected so far in every state; a step appends one
\* booking record exactly when it places a booking in the ledger.
C26_SummaryConsistency ==
  /\ [](/\ SummaryAgrees(summary_rows, schedule_rows)
        /\ pc = "returned" =>
             /\ returned.set
             /\ OneRowPerWindow(returned.summary_df)
             /\ SummaryAgrees(returned.summary_df, returned.schedule_df)
             /\ Len(returned.schedule_df) = Len(schedule_rows)
             /\ Len(returned.schedule_df) = Cardinality(DOMAIN all_bookings))
  /\ [][/\ all_bookings' # all_bookings =>
             schedule_rows' = Append(schedule_rows, schedule_rows'[Len(schedule_rows')])
        /\ all_bookings' = all_bookings => schedule_rows' = schedule_rows]_vars

\* C26 witness: a run has returned two summary rows, one of them for a window
\* with bookings from both passes on several days.
C26_Witness ==
  /\ pc = "returned"
  /\ Len(returned.summary_df) = 2
  /\ \E k \in DOMAIN returned.summary_df :
       /\ returned.summary_df[k].ShowsScheduled >= 3
       /\ returned.summary_df[k].ScheduledSeats > returned.summary_df[k].SeatsRequired
       /\ \E a \in DOMAIN returned.schedule_df : \E b \in DOMAIN returned.schedule_df :
            /\ a # b
            /\ returned.schedule_df[a].Course = returned.summary_df[k].Course
            /\ returned.schedule_df[b].Course = returned.summary_df[k].Course
            /\ returned.schedule_df[a].ModAct = returned.summary_df[k].ModAct
            /\ returned.schedule_df[b].ModAct = returned.summary_df[k].ModAct
            /\ returned.schedule_df[a].Date = returned.schedule_df[b].Date
            /\ returned.schedule_df[a].Start = returned.schedule_df[b].Start

\* C27. Bookings stay inside their window: in every reachable state every
\* booking record, of either pass, is on a day from the earliest open date to
\* the latest close date of the input rows of its (course, Mod/Act), and so
\* is every ledger entry.
C27_InsideWindow ==
  /\ \A k \in DOMAIN schedule_rows :
       /\ OpenOf(schedule_rows[k]) <= schedule_rows[k].Date
       /\ schedule_rows[k].Date <= CloseOf(schedule_rows[k])
  /\ \A b \in DOMAIN all_bookings :
       \E row \in {[Course |-> all_bookings[b].course, ModAct |-> all_bookings[b].mod_act]} :
         OpenOf(row) <= b[1] /\ b[1] <= CloseOf(row)

\* C27 witness: Pass 2 has just booked a start on the close date of a window
\* that also has a booking on its open date, a different day; another window
\* closes later.
C27_Witness ==
  /\ Pass2JustPlaced
  /\ \E a \in DOMAIN schedule_rows : \E b \in DOMAIN schedule_rows :
       /\ schedule_rows[a].Course = course /\ schedule_rows[a].ModAct = mod
       /\ schedule_rows[b].Course = course /\ schedule_rows[b].ModAct = mod
       /\ schedule_rows[a].Date = OpenOf(schedule_rows[a])
       /\ schedule_rows[b].Date = CloseOf(schedule_rows[b])
       /\ b = Len(schedule_rows)
       /\ schedule_rows[a].Date < schedule_rows[b].Date
  /\ \E w \in DOMAIN windows : windows[w].close_date > close_dt

\* The ledger entries of a window.
LedgerOf(c, m) ==
  {b \in DOMAIN all_bookings : all_bookings[b].course = c /\ all_bookings[b].mod_act = m}

\* C28. No partial output on failure: in every state where a run has aborted
\* with the configuration error or the capacity error nothing has been
\* returned, neither a booking list nor a summary list, and nothing is
\* returned later; the raising step leaves the ledger, the booking records and
\* the summary rows as they were, so every booking placed before, for earlier
\* windows or for the failing one, is still in the ledger.
C28_NoPartialOutput ==
  /\ [](pc = "raised" =>
          /\ returned = NoValue
          /\ \A k \in DOMAIN schedule_rows :
               /\ <<schedule_rows[k].Date, schedule_rows[k].Pod, StartMin(schedule_rows[k])>>
                    \in DOMAIN all_bookings
               /\ pod_usage_count[schedule_rows[k].Pod] >= 1)
  /\ [][/\ raised' # raised =>
             /\ UNCHANGED <<ledger, schedule_rows, summary_rows, returned>>
             /\ pc' = "raised"
        /\ returned' # returned => (raised = NoError /\ raised' = NoError)]_vars

\* C28 witness: the capacity error was raised for the second window, with
\* bookings of the first window and of the failing window in the ledger.
C28_Witness ==
  /\ CapacityErrorRaised
  /\ wi = 2
  /\ LedgerOf(summary_rows[1].Course, summary_rows[1].ModAct) # {}
  /\ LedgerOf(course, mod) # {}
  /\ schedule_rows # <<>>

\* The ledger key of a booking record.
KeyOf(row) == <<row.Date, row.Pod, StartMin(row)>>

\* The start of the ledger key b is in the used-start set of the one team of
\* b's pod, and can_place refuses the key for every window.
KeyBlocked(b) ==
  /\ Cardinality({k \in DOMAIN PODS : PODS[k].pod = b[2]}) = 1
  /\ b[3] \in Get(ops_used_starts, <<b[1], OPS_GROUP(b[2])>>, {})
  /\ \A w \in DOMAIN windows :
       ~can_place(b[1], b[2], OPS_GROUP(b[2]), b[3], windows[w].Course,
                  windows[w].ModAct, b[1], get_show_length(windows[w].Course))

\* C29. Place never overwrites: in every reachable state the ledger has as
\* many entries as there are booking records, and every ledger key is blocked:
\* its pod has exactly one team, the team's used starts of the day contain its
\* start, and can_place refuses it; a step that places a booking uses a key
\* that was not in the ledger and adds exactly that one entry.
C29_PlaceNeverOverwrites ==
  /\ [](/\ Cardinality(DOMAIN all_bookings) = Len(schedule_rows)
        /\ DOMAIN all_bookings = {KeyOf(schedule_rows[k]) : k \in DOMAIN schedule_rows}
        /\ \A b \in DOMAIN all_bookings : KeyBlocked(b))
  /\ [][Len(schedule_rows') > Len(schedule_rows) =>
          \E key \in {KeyOf(schedule_rows'[Len(schedule_rows')])} :
            /\ key \notin DOMAIN all_bookings
            /\ DOMAIN all_bookings' = DOMAIN all_bookings \cup {key}
            /\ Cardinality(DOMAIN all_bookings')
                 = Cardinality(DOMAIN all_bookings) + 1]_vars

\* C29 witness: the ledger has two keys that differ in the pod only, two that
\* differ in the start only and two that differ in the day only.
C29_Witness ==
  \E a \in DOMAIN all_bookings :
    /\ \E b \in DOMAIN all_bookings : b[1] = a[1] /\ b[2] # a[2] /\ b[3] = a[3]
    /\ \E b \in DOMAIN all_bookings : b[1] = a[1] /\ b[2] = a[2] /\ b[3] # a[3]
    /\ \E b \in DOMAIN all_bookings : b[1] # a[1] /\ b[2] = a[2] /\ b[3] = a[3]

====
